---- MODULE Spec2Model ----
(***************************************************************************)
(* Model of the per-user queue / timer / dispatch core of the album bot    *)
(* (src/album_bot_auto.py, src/config.py).                                 *)
(*                                                                         *)
(* The program runs on one asyncio event loop: code between two awaits is  *)
(* one atomic step.  The awaits of the core are asyncio.sleep (the timer), *)
(* the acquisition of the per-user asyncio.Lock, the platform send calls   *)
(* and the error notification.  Every action below is one such step.       *)
(* A task cancelled at an await receives CancelledError there; it is a     *)
(* BaseException (Python >= 3.8), so "except Exception" does not catch it. *)
(***************************************************************************)
EXTENDS Integers, Sequences, FiniteSets, TLC

\* ---------------------------------------------------------------- bounds
MaxItems == 11       \* media messages that arrive in one behaviour
MaxTasks == 3        \* coroutines suspended at an await at the same time
MaxCommands == 1     \* /send_album and /cancel commands in one behaviour
MaxVaried == 1       \* arrivals whose kind and caption are chosen freely
MaxPairItems == 3    \* media messages that arrive when two users write

\* ------------------------------------------------------ program constants
BATCH_LIMIT == 10    \* items[:10] / items[10:]
Users == {"u1", "u2"}
Solo == {"u1"}       \* the user who writes when only one does
TaskIds == 1..MaxTasks
NoUser == "-"

\* AUTO_SEND_THRESHOLD = int(env); if > 10: 10
ThresholdEnv == {10, 25}
PairThresholdEnv == {1, 3}
ClampThreshold(raw) == IF raw > 10 THEN 10 ELSE raw

\* Inbound media messages: the attribute of the message that is set and, for
\* a document, its mime type; with or without a caption.
MessageKinds == {"photo", "video", "animation", "doc_image", "doc_video", "doc_other"}
Captions == {"None", "cap"}

Classify(kind) ==
    CASE kind = "photo" -> "photo"
      [] kind = "video" -> "video"
      [] kind = "animation" -> "video"
      [] kind = "doc_image" -> "photo"
      [] kind = "doc_video" -> "video"
      [] OTHER -> "unsupported"

VARIABLES
    pending,      \* dict user -> list of items (DOMAIN pending = its keys)
    timers,       \* dict user -> task
    locked,       \* send_locks[user]._locked
    waiters,      \* send_locks[user]._waiters, oldest first
    tasks,        \* the suspended coroutines, by slot
    threshold,    \* AUTO_SEND_THRESHOLD
    nextId,       \* file_id of the next arriving media message
    commands,     \* how many commands of each kind were handled so far
    cleared,      \* users whose queue /cancel removed, with no arrival since
    attempted,    \* file_ids that were part of an issued send call
    overflow,     \* file_ids a finished dispatch stored back as its remainder
    last          \* the step taken last, and what it did

vars == <<pending, timers, locked, waiters, tasks, threshold, nextId, commands,
          cleared, attempted, overflow, last>>

FreeTask == [kind |-> "none", user |-> NoUser, pc |-> "free", call |-> "none",
             media |-> <<>>, to_send |-> <<>>, remaining |-> <<>>, cancelled |-> FALSE]

\* ------------------------------------------------------------- helpers
Ids(items) == {items[i].file_id : i \in 1..Len(items)}

Without(f, k) == [x \in (DOMAIN f) \ {k} |-> f[x]]
With(f, k, v) == [x \in (DOMAIN f) \cup {k} |-> IF x = k THEN v ELSE f[x]]

RemoveFrom(seq, t) == SelectSeq(seq, LAMBDA x : x # t)

\* The part of the state the program owns, as one record, so that the calls a
\* handler makes in sequence compose.  ok = FALSE: the model ran out of slots.
Cur == [pending |-> pending, timers |-> timers, locked |-> locked,
        waiters |-> waiters, tasks |-> tasks, attempted |-> attempted,
        overflow |-> overflow, ok |-> TRUE]

Install(s) ==
    /\ s.ok
    /\ pending' = s.pending
    /\ timers' = s.timers
    /\ locked' = s.locked
    /\ waiters' = s.waiters
    /\ tasks' = s.tasks
    /\ attempted' = s.attempted
    /\ overflow' = s.overflow

FreeSlots(s) == {t \in TaskIds : s.tasks[t].pc = "free"}
MinOf(S) == CHOOSE x \in S : \A y \in S : x <= y

\* pending.get(user_id, [])
PendingGet(s, u) == IF u \in DOMAIN s.pending THEN s.pending[u] ELSE <<>>

\* asyncio.Lock._wake_up_first: the oldest waiter's future gets its result;
\* the waiter takes the lock when the loop resumes it.
WakeUpFirst(s, u) ==
    IF s.waiters[u] # <<>> /\ s.tasks[Head(s.waiters[u])].pc = "waiting"
    THEN [s EXCEPT !.tasks[Head(s.waiters[u])].pc = "woken"]
    ELSE s

\* Faulty variant: the lock is freed but the oldest waiter is not woken.
ReleaseWithoutWakeUp(s, u) == [s EXCEPT !.locked[u] = FALSE]

\* asyncio.Lock.release
Release(s, u) == WakeUpFirst([s EXCEPT !.locked[u] = FALSE], u)

\* ------------------------------------------------------------ the timer
\* Faulty variant: the timer is forgotten but its task is not cancelled.
PopTimerOnly(s, u) == [s EXCEPT !.timers = Without(s.timers, u)]

\* _cancel_timer: timers.pop(user_id, None); cancel the task unless done.
\* A task cancelled while it sleeps or waits for the lock ends there and
\* touches nothing (a woken waiter passes the wake-up on, as
\* asyncio.Lock.acquire does); a task cancelled inside its send or its
\* notification receives CancelledError when the loop resumes it (Cancelled).
\* A task that cancels itself has no await left and just returns.
_cancel_timer(s, u) ==
    IF u \notin DOMAIN s.timers THEN s
    ELSE LET task == s.timers[u]
             pc == s.tasks[task].pc
             popped == [s EXCEPT !.timers = Without(s.timers, u)]
             gone == [popped EXCEPT !.tasks[task] = FreeTask,
                                    !.waiters[u] = RemoveFrom(s.waiters[u], task)]
         IN CASE pc \in {"done", "sleeping", "waiting"} -> gone
              [] pc = "woken" -> IF s.locked[u] THEN gone ELSE WakeUpFirst(gone, u)
              [] pc \in {"sending", "notifying"} ->
                     [popped EXCEPT !.tasks[task].cancelled = TRUE]
              [] OTHER -> popped

\* Faulty variant: the previous timer is cancelled and no new one is created.
TimerNotCreated(s, u) == _cancel_timer(s, u)

\* _start_timer: cancel the previous timer, create the _wait_and_send task
\* and register it.
_start_timer(s, u) ==
    LET s1 == _cancel_timer(s, u)
    IN IF FreeSlots(s1) = {} THEN [s1 EXCEPT !.ok = FALSE]
       ELSE LET new == MinOf(FreeSlots(s1))
            IN [s1 EXCEPT !.tasks[new] = [FreeTask EXCEPT !.kind = "timer", !.user = u,
                                                          !.pc = "sleeping"],
                          !.timers = With(s1.timers, u, new)]

\* ------------------------------------------------------- the dispatcher
\* A coroutine returns: a timer task that is still registered in timers stays
\* there as a finished task, every other coroutine is gone.
EndTask(s, t) ==
    LET u == s.tasks[t].user
    IN IF s.tasks[t].kind = "timer" /\ u \in DOMAIN s.timers /\ s.timers[u] = t
       THEN [s EXCEPT !.tasks[t] = [FreeTask EXCEPT !.kind = "timer", !.user = u,
                                                    !.pc = "done"]]
       ELSE [s EXCEPT !.tasks[t] = FreeTask]

Min(a, b) == IF a < b THEN a ELSE b

\* Faulty variant: the batch is not sliced.
ToSendWhole(items) == items

\* items[:10] and items[10:]
ToSend(items) == SubSeq(items, 1, Min(BATCH_LIMIT, Len(items)))
Remaining(items) == SubSeq(items, BATCH_LIMIT + 1, Len(items))

\* SCENARIO A / SCENARIO B: the platform call a batch is sent with.
SendCall(to_send) ==
    IF Len(to_send) = 1
    THEN IF to_send[1].type = "photo" THEN "send_photo"
         ELSE IF to_send[1].type = "video" THEN "send_video" ELSE "none"
    ELSE "send_media_group"

\* Faulty variant: every item of an album keeps its caption.
InputMediaCaptioned(item, with_caption) ==
    [type |-> item.type, media |-> item.file_id, caption |-> item.caption]

\* _make_input_media: InputMediaPhoto / InputMediaVideo of the item, with its
\* caption only if with_caption.
_make_input_media(item, with_caption) ==
    [type |-> item.type, media |-> item.file_id,
     caption |-> IF with_caption THEN item.caption ELSE "None"]

\* What the send call carries.  SCENARIO A: the file_id and the caption of the
\* one item; SCENARIO B: the media list, with_caption = (i == 0) (the model's
\* sequences start at 1).
SendMedia(to_send) ==
    IF Len(to_send) = 1
    THEN <<[type |-> to_send[1].type, media |-> to_send[1].file_id,
            caption |-> to_send[1].caption]>>
    ELSE [i \in 1..Len(to_send) |-> _make_input_media(to_send[i], i = 1)]

\* Faulty variant: the batch is sent without looking whether it is empty.
LockedBodyUnguarded(s, t, u) ==
    LET items == PendingGet(s, u)
    IN [s EXCEPT !.tasks[t].pc = "sending",
                 !.tasks[t].call = "send_media_group",
                 !.tasks[t].to_send = ToSend(items),
                 !.tasks[t].remaining = Remaining(items)]

\* send_album_for_user once the lock is held: read the queue, return if it is
\* empty, else slice the batch and issue the send call (the coroutine is then
\* suspended in it).
LockedBody(s, t, u) ==
    LET items == PendingGet(s, u)
    IN IF items = <<>>
       THEN Release(EndTask(s, t), u)
       ELSE [s EXCEPT !.tasks[t].pc = "sending",
                      !.tasks[t].call = SendCall(ToSend(items)),
                      !.tasks[t].media = SendMedia(ToSend(items)),
                      !.tasks[t].to_send = ToSend(items),
                      !.tasks[t].remaining = Remaining(items),
                      !.attempted = s.attempted \cup Ids(ToSend(items))]

\* Faulty variant: one lock for all users instead of one per user.
CanAcquireGlobal(s, u) == \A v \in Users : ~s.locked[v] /\ s.waiters[v] = <<>>

\* Faulty variant: the lock is taken without looking at its state.
CanAcquireAlways(s, u) == TRUE

\* asyncio.Lock.acquire without waiting: the lock is free and nobody waits.
CanAcquire(s, u) == ~s.locked[u] /\ s.waiters[u] = <<>>

\* send_album_for_user called by the coroutine in slot t: "async with
\* send_locks[user_id]" takes the lock at once or queues the caller.
send_album_for_user(s, t, u) ==
    IF CanAcquire(s, u)
    THEN LockedBody([s EXCEPT !.locked[u] = TRUE], t, u)
    ELSE [s EXCEPT !.tasks[t].pc = "waiting",
                   !.waiters[u] = Append(s.waiters[u], t)]

\* Faulty variant: the remainder is stored but the timer is not restarted.
HandleStateNoRestart(s, u, remaining) ==
    IF remaining # <<>>
    THEN _cancel_timer([s EXCEPT !.pending = With(s.pending, u, remaining),
                                 !.overflow = s.overflow \cup Ids(remaining)], u)
    ELSE _cancel_timer([s EXCEPT !.pending = Without(s.pending, u)], u)

\* Faulty variant: the drained entry is removed but the timer is left alone.
HandleStateNoCancel(s, u, remaining) ==
    IF remaining # <<>>
    THEN _start_timer([s EXCEPT !.pending = With(s.pending, u, remaining),
                                !.overflow = s.overflow \cup Ids(remaining)], u)
    ELSE [s EXCEPT !.pending = Without(s.pending, u)]

\* "2. Handle State after sending", then the end of the async with block.
HandleStateAfterSending(s, u, remaining) ==
    IF remaining # <<>>
    THEN _start_timer([s EXCEPT !.pending = With(s.pending, u, remaining),
                                !.overflow = s.overflow \cup Ids(remaining)], u)
    ELSE _cancel_timer([s EXCEPT !.pending = Without(s.pending, u)], u)

\* Faulty variant: the lock stays held after the state handling.
FinishKeepLock(s, t) ==
    HandleStateAfterSending([s EXCEPT !.tasks[t] = FreeTask], s.tasks[t].user,
                            s.tasks[t].remaining)

Finish(s, t) ==
    LET u == s.tasks[t].user
        remaining == s.tasks[t].remaining
        returned == [s EXCEPT !.tasks[t] = FreeTask]
    IN Release(HandleStateAfterSending(returned, u, remaining), u)

\* A handler coroutine that calls the dispatcher needs a slot while suspended.
CallDispatcher(s, u) ==
    IF FreeSlots(s) = {} THEN [s EXCEPT !.ok = FALSE]
    ELSE LET t == MinOf(FreeSlots(s))
         IN send_album_for_user(
                [s EXCEPT !.tasks[t] = [FreeTask EXCEPT !.kind = "handler", !.user = u,
                                                        !.pc = "running"]], t, u)

\* ------------------------------------------------------------- behaviour
Handled == commands.send_album + commands.cancel

\* Faulty variant: the threshold has to be exceeded.
ExceededThreshold(total, limit) == total > limit

\* if total >= AUTO_SEND_THRESHOLD
ReachedThreshold(total, limit) == total >= limit

\* Faulty variant: every item that starts the timer is acknowledged.
AnyItem(total) == total >= 1

\* if total == 1 (the "Album started!" reply)
FirstItem(total) == total = 1

Step(op, u, t, total, ack) ==
    [op |-> op, user |-> u, task |-> t, total |-> total, ack |-> ack]

EmptyDict == [x \in {} |-> x]

\* The state after import: empty registries, AUTO_SEND_THRESHOLD from config.
Start(env) ==
    /\ pending = EmptyDict
    /\ timers = EmptyDict
    /\ locked = [u \in Users |-> FALSE]
    /\ waiters = [u \in Users |-> <<>>]
    /\ tasks = [t \in TaskIds |-> FreeTask]
    /\ threshold \in {ClampThreshold(raw) : raw \in env}
    /\ nextId = 1
    /\ commands = [send_album |-> 0, cancel |-> 0]
    /\ cleared = {}
    /\ attempted = {}
    /\ overflow = {}
    /\ last = Step("init", NoUser, 0, 0, FALSE)

Init == Start(ThresholdEnv)

\* collect_media on a photo, video, animation or image/video document:
\* append, then dispatch at the threshold or (re)start the timer and
\* acknowledge the first item.
CollectMedia(u, kind, caption) ==
    /\ nextId <= MaxItems
    /\ Classify(kind) # "unsupported"
    /\ LET item == [type |-> Classify(kind), file_id |-> nextId, caption |-> caption]
           queued == [Cur EXCEPT !.pending = With(pending, u, Append(PendingGet(Cur, u), item))]
           total == Len(queued.pending[u])
       IN IF ReachedThreshold(total, threshold)
          THEN /\ Install(CallDispatcher(_cancel_timer(queued, u), u))
               /\ last' = Step("collect_media", u, 0, total, FALSE)
          ELSE /\ Install(_start_timer(queued, u))
               /\ last' = Step("collect_media", u, 0, total, FirstItem(total))
    /\ nextId' = nextId + 1
    /\ cleared' = cleared \ {u}
    /\ UNCHANGED <<threshold, commands>>

\* collect_media on a document that is neither image/* nor video/*: a reply
\* and a return before the queue is touched.
CollectUnsupported(u, kind) ==
    /\ Classify(kind) = "unsupported"
    /\ UNCHANGED vars

\* send_album_command
SendAlbumCommand(u) ==
    /\ Handled < MaxCommands
    /\ Install(CallDispatcher(_cancel_timer(Cur, u), u))
    /\ commands' = [commands EXCEPT !.send_album = @ + 1]
    /\ last' = Step("send_album", u, 0, Len(PendingGet(Cur, u)), FALSE)
    /\ UNCHANGED <<threshold, nextId, cleared>>

\* cancel_queue
CancelQueue(u) ==
    /\ Handled < MaxCommands
    /\ IF u \in DOMAIN pending
       THEN /\ Install(_cancel_timer([Cur EXCEPT !.pending = Without(pending, u)], u))
            /\ cleared' = cleared \cup {u}
            /\ last' = Step("cancel", u, 0, Len(pending[u]), TRUE)
       ELSE /\ Install(Cur)
            /\ cleared' = cleared
            /\ last' = Step("cancel", u, 0, 0, FALSE)
    /\ commands' = [commands EXCEPT !.cancel = @ + 1]
    /\ UNCHANGED <<threshold, nextId>>

\* _wait_and_send after asyncio.sleep(AUTO_SEND_DELAY) returned.
TimerFire(t) ==
    /\ tasks[t].pc = "sleeping"
    /\ LET u == tasks[t].user
       IN /\ IF PendingGet(Cur, u) # <<>>
             THEN Install(send_album_for_user(Cur, t, u))
             ELSE Install(EndTask(Cur, t))
          /\ last' = Step("timer_fire", u, t, Len(PendingGet(Cur, u)), FALSE)
    /\ UNCHANGED <<threshold, nextId, commands, cleared>>

\* A woken waiter is resumed: it leaves the waiters, takes the lock and runs
\* the body of send_album_for_user.
LockAcquired(t) ==
    /\ tasks[t].pc = "woken"
    /\ LET u == tasks[t].user
       IN /\ Install(LockedBody([Cur EXCEPT !.waiters[u] = RemoveFrom(waiters[u], t),
                                            !.locked[u] = TRUE], t, u))
          /\ last' = Step("lock_acquired", u, t, Len(PendingGet(Cur, u)), FALSE)
    /\ UNCHANGED <<threshold, nextId, commands, cleared>>

\* The send call returns.
SendOk(t) ==
    /\ tasks[t].pc = "sending"
    /\ ~tasks[t].cancelled
    /\ Install(Finish(Cur, t))
    /\ last' = Step("send_ok", tasks[t].user, t, 0, FALSE)
    /\ UNCHANGED <<threshold, nextId, commands, cleared>>

\* The send call raises: log, then await client.send_message(...).
SendFail(t) ==
    /\ tasks[t].pc = "sending"
    /\ ~tasks[t].cancelled
    /\ Install([Cur EXCEPT !.tasks[t].pc = "notifying"])
    /\ last' = Step("send_fail", tasks[t].user, t, 0, FALSE)
    /\ UNCHANGED <<threshold, nextId, commands, cleared>>

\* The notification returns (delivered = TRUE) or raises and is swallowed.
NotifyDone(t, delivered) ==
    /\ tasks[t].pc = "notifying"
    /\ ~tasks[t].cancelled
    /\ Install(Finish(Cur, t))
    /\ last' = Step("notify_done", tasks[t].user, t, 0, delivered)
    /\ UNCHANGED <<threshold, nextId, commands, cleared>>

\* Faulty variant: the cancelled task ends without leaving the async with block.
CancelledKeepsLock(t) ==
    /\ tasks[t].pc \in {"sending", "notifying"}
    /\ tasks[t].cancelled
    /\ Install([Cur EXCEPT !.tasks[t] = FreeTask])
    /\ last' = Step("cancelled", tasks[t].user, t, 0, FALSE)
    /\ UNCHANGED <<threshold, nextId, commands, cleared>>

\* A timer task cancelled inside its send or notification is resumed with
\* CancelledError: it leaves the async with block (the lock is released) and
\* _wait_and_send returns; the state handling after the send is skipped.
Cancelled(t) ==
    /\ tasks[t].pc \in {"sending", "notifying"}
    /\ tasks[t].cancelled
    /\ Install(Release([Cur EXCEPT !.tasks[t] = FreeTask], tasks[t].user))
    /\ last' = Step("cancelled", tasks[t].user, t, 0, FALSE)
    /\ UNCHANGED <<threshold, nextId, commands, cleared>>

\* The message of an arrival: the first MaxVaried arrivals are of any kind,
\* with or without a caption; the later ones are captioned photos, so that an
\* album has captions to drop behind its first item.
ArrivalInputs ==
    IF nextId <= MaxVaried THEN MessageKinds \X Captions ELSE {<<"photo", "cap">>}

Next ==
    \/ \E u \in Solo, in \in ArrivalInputs : CollectMedia(u, in[1], in[2])
    \/ \E u \in Solo : CollectUnsupported(u, "doc_other")
    \/ \E u \in Solo : SendAlbumCommand(u)
    \/ \E u \in Solo : CancelQueue(u)
    \/ \E t \in TaskIds : TimerFire(t)
    \/ \E t \in TaskIds : LockAcquired(t)
    \/ \E t \in TaskIds : SendOk(t)
    \/ \E t \in TaskIds : SendFail(t)
    \/ \E t \in TaskIds, delivered \in BOOLEAN : NotifyDone(t, delivered)
    \/ \E t \in TaskIds : Cancelled(t)

Spec == Init /\ [][Next]_vars

\* The event loop keeps resuming the coroutines of a user while one of them
\* can run: a timer whose delay elapsed fires, a woken waiter takes the lock, a
\* send call or a notification returns or raises, a cancelled task receives
\* its CancelledError.  (Nothing more is assumed: in particular no coroutine
\* is assumed to be preferred over another.)
Resumed(u) ==
    \E t \in TaskIds :
        /\ tasks[t].user = u
        /\ \/ TimerFire(t)
           \/ LockAcquired(t)
           \/ SendOk(t)
           \/ SendFail(t)
           \/ \E delivered \in BOOLEAN : NotifyDone(t, delivered)
           \/ Cancelled(t)

Fairness == \A u \in Solo : WF_vars(Resumed(u))

FairSpec == Spec /\ Fairness

\* Two users write to the bot, with a small AUTO_SEND_THRESHOLD.
PairInit == Start(PairThresholdEnv)

PairNext ==
    \/ \E u \in Users : nextId <= MaxPairItems /\ CollectMedia(u, "video", "cap")
    \/ \E u \in Users : CollectUnsupported(u, "doc_other")
    \/ \E u \in Users : SendAlbumCommand(u)
    \/ \E u \in Users : CancelQueue(u)
    \/ \E t \in TaskIds : TimerFire(t)
    \/ \E t \in TaskIds : LockAcquired(t)
    \/ \E t \in TaskIds : SendOk(t)
    \/ \E t \in TaskIds : SendFail(t)
    \/ \E t \in TaskIds, delivered \in BOOLEAN : NotifyDone(t, delivered)
    \/ \E t \in TaskIds : Cancelled(t)

PairSpec == PairInit /\ [][PairNext]_vars

TypeOK ==
    /\ DOMAIN pending \subseteq Users
    /\ DOMAIN timers \subseteq Users
    /\ \A t \in TaskIds : tasks[t].pc \in
           {"free", "sleeping", "waiting", "woken", "sending", "notifying", "done"}

\* ---------------------------------------------------------- vocabulary
Queue(u) == IF u \in DOMAIN pending THEN pending[u] ELSE <<>>

\* The dispatcher invocations of u that are between acquiring and releasing
\* the lock: suspended in the send call or in the error notification.
Holders(u) == {t \in TaskIds : tasks[t].user = u /\ tasks[t].pc \in {"sending", "notifying"}}

\* The timers of u that are scheduled and still counting down.
ArmedTimers(u) ==
    {t \in TaskIds : tasks[t].kind = "timer" /\ tasks[t].user = u /\ tasks[t].pc = "sleeping"}

\* This step issues the send call of the coroutine in slot t.
SendIssued(t) == tasks[t].pc # "sending" /\ tasks'[t].pc = "sending"

\* This step invokes the dispatcher in slot t: a handler coroutine appears
\* there, suspended in the dispatcher, or the timer task of the slot calls it
\* after its sleep.
HandlerInvoked(t) ==
    /\ tasks[t].kind # "handler"
    /\ tasks'[t].kind = "handler"
    /\ tasks'[t].pc \in {"waiting", "sending"}

DispatcherInvoked(t) ==
    \/ HandlerInvoked(t)
    \/ /\ tasks[t].kind = "timer" /\ tasks[t].pc = "sleeping"
       /\ tasks'[t].kind = "timer" /\ tasks'[t].pc \in {"waiting", "sending"}

\* --------------------------------------------------------------- claims

\* C1: no queued item is included in more than one send attempt: a step that
\* issues a send call carries no item that an earlier send call carried.
C1_NoItemSentTwice ==
    [][\A t \in TaskIds :
          SendIssued(t) => Ids(tasks'[t].to_send) \cap attempted = {}]_vars

\* C2: an item leaves the queue only as part of a send attempt or by /cancel:
\* every item a step removes from a user's queue was attempted or the step
\* is the /cancel handler.
C2_NoItemLost ==
    [][\A u \in Users :
          \A i \in Ids(Queue(u)) \ Ids(Queue(u)') :
              i \in attempted' \/ last'.op = "cancel"]_vars

\* At most one holder per user, and the lock is then held.
C3_AtMostOneHolder ==
    \A u \in Users :
        /\ Cardinality(Holders(u)) <= 1
        /\ Holders(u) # {} => locked[u]

\* A dispatcher invoked under a holder queues behind it.
C3_InvokedWaits ==
    \A t \in TaskIds :
        (DispatcherInvoked(t) /\ Holders(tasks'[t].user) # {})
            => /\ tasks'[t].pc = "waiting"
               /\ \E i \in 1..Len(waiters'[tasks'[t].user]) :
                      waiters'[tasks'[t].user][i] = t

\* C3: at most one dispatcher invocation per user is between acquiring and
\* releasing the lock (and the lock is then held), and a dispatcher invoked
\* while another one holds the lock waits.
C3_OneDispatchInFlight == []C3_AtMostOneHolder /\ [][C3_InvokedWaits]_vars

C3_Witness ==
    \E u \in Users, t \in TaskIds :
        /\ Holders(u) # {}
        /\ tasks[t].user = u
        /\ tasks[t].pc = "waiting"
        /\ last.op \in {"collect_media", "send_album", "timer_fire"}

\* C4: without a force-send, every batch is the first min(10, length) items of
\* the queue and the batches follow one another in arrival order: no item of
\* a batch arrived before an item of an earlier batch.
C4_SentInArrivalOrder ==
    [][\A t \in TaskIds :
          (SendIssued(t) /\ commands'.send_album = 0)
              => /\ tasks'[t].to_send =
                        SubSeq(Queue(tasks'[t].user), 1,
                               Min(BATCH_LIMIT, Len(Queue(tasks'[t].user))))
                 /\ \A i \in Ids(tasks'[t].to_send) : \A j \in attempted : j <= i]_vars

\* C5: a send call in flight carries at most 10 items: a group-send between
\* 2 and 10, a single-send exactly 1.
C5_BatchAtMostTen ==
    \A t \in TaskIds :
        tasks[t].pc = "sending"
            => /\ Len(tasks[t].to_send) \in 1..BATCH_LIMIT
               /\ tasks[t].call \in {"send_photo", "send_video", "send_media_group"}
               /\ tasks[t].call = "send_media_group" => Len(tasks[t].to_send) \in 2..BATCH_LIMIT
               /\ tasks[t].call \in {"send_photo", "send_video"} => Len(tasks[t].to_send) = 1

C5_Witness ==
    \E t \in TaskIds :
        /\ tasks[t].pc = "sending"
        /\ Len(tasks[t].to_send) = BATCH_LIMIT
        /\ Len(Queue(tasks[t].user)) > BATCH_LIMIT

\* This step is the state handling after the send of the coroutine in slot t
\* (the send returned, or it failed and the notification was attempted).
Finishes(t) ==
    /\ tasks[t].pc \in {"sending", "notifying"}
    /\ last'.op \in {"send_ok", "notify_done"}
    /\ last'.task = t

\* C6: a dispatch that finds more than 10 items sends the first 10 and, when
\* it finishes, leaves the other len-10 pending, in order, with an armed timer.
C6_OverflowKept ==
    [][\A t \in TaskIds : \A u \in Users :
          /\ (SendIssued(t) /\ tasks'[t].user = u /\ Len(Queue(u)') > BATCH_LIMIT)
                => /\ tasks'[t].to_send = SubSeq(Queue(u)', 1, BATCH_LIMIT)
                   /\ tasks'[t].remaining =
                          SubSeq(Queue(u)', BATCH_LIMIT + 1, Len(Queue(u)'))
          /\ (Finishes(t) /\ tasks[t].user = u /\ tasks[t].remaining # <<>>)
                => /\ Len(tasks[t].to_send) = BATCH_LIMIT
                   /\ Queue(u)' = tasks[t].remaining
                   /\ u \in DOMAIN timers'
                   /\ timers'[u] \in ArmedTimers(u)']_vars

C6_Witness ==
    /\ last.op \in {"send_ok", "notify_done"}
    /\ Queue(last.user) # <<>>
    /\ Ids(Queue(last.user)) \subseteq overflow
    /\ Cardinality(attempted) >= BATCH_LIMIT
    /\ ArmedTimers(last.user) # {}

\* C7: overflow is eventually sent: an item that a finished dispatch left in
\* the queue is later part of a send call, unless a /cancel removes the queue.
\* (An item left behind stood behind 10 others, so its file_id exceeds 10.)
OverflowLeft(i) ==
    /\ last.op \in {"send_ok", "notify_done"}
    /\ i \in Ids(Queue(last.user))

Sending(i) ==
    \E t \in TaskIds : tasks[t].pc = "sending" /\ i \in Ids(tasks[t].to_send)

C7_OverflowEventuallySent ==
    \A i \in (BATCH_LIMIT + 1)..MaxItems :
        OverflowLeft(i) ~> (Sending(i) \/ (last.op = "cancel" /\ last.ack))

C7_Witness ==
    \E t \in TaskIds :
        /\ tasks[t].pc = "sending"
        /\ Ids(tasks[t].to_send) \cap overflow # {}

\* C8: an arrival that brings the count to the threshold or above cancels the
\* timer and invokes the dispatcher in the same step, arming no timer; an
\* arrival that leaves the count below arms the timer and does not dispatch.
C8_ThresholdDispatch ==
    [][\A u \in Users :
          (nextId' = nextId + 1 /\ nextId \in Ids(Queue(u)'))
              => IF Len(Queue(u)') >= threshold
                 THEN /\ u \notin DOMAIN timers'
                      /\ ArmedTimers(u)' = {}
                      /\ \E t \in TaskIds : HandlerInvoked(t) /\ tasks'[t].user = u
                 ELSE /\ u \in DOMAIN timers'
                      /\ timers'[u] \in ArmedTimers(u)'
                      /\ attempted' = attempted
                      /\ \A t \in TaskIds : ~DispatcherInvoked(t)]_vars

C8_Witness ==
    /\ last.op = "collect_media"
    /\ Len(Queue(last.user)) >= threshold
    /\ last.user \notin DOMAIN timers
    /\ \E t \in TaskIds :
           tasks[t].kind = "handler" /\ tasks[t].pc = "sending"
               /\ Len(tasks[t].to_send) = threshold

\* C9: after /cancel removed a user's queue, the user has no registry entry
\* and no armed timer until the user's next media arrival.
C9_ClearedStaysCleared ==
    \A u \in cleared :
        /\ u \notin DOMAIN pending
        /\ ArmedTimers(u) = {}

\* C10: when the send call fails, nothing is retried or re-queued: the
\* failure step issues the one notification and no send; when the dispatch
\* then ends, it returns normally with the lock released and the batch gone
\* from the queue (the remainder kept with an armed timer, or no entry).
C10_FailedBatchConsumed ==
    [][\A t \in TaskIds : \A u \in Users :
          /\ (tasks[t].pc = "sending" /\ tasks'[t].pc = "notifying")
                => /\ pending' = pending
                   /\ attempted' = attempted
          /\ (tasks[t].pc = "notifying" /\ tasks[t].user = u
                 /\ ~(tasks'[t].pc = "notifying" /\ tasks'[t].to_send = tasks[t].to_send))
                => /\ last'.op = "notify_done"
                   /\ ~locked'[u]
                   /\ Ids(tasks[t].to_send) \cap Ids(Queue(u)') = {}
                   /\ Queue(u)' = tasks[t].remaining
                   /\ tasks[t].remaining # <<>> => timers'[u] \in ArmedTimers(u)'
                   /\ tasks[t].remaining = <<>> => ArmedTimers(u)' = {}]_vars

\* The single-send of one item: the call of the item's kind, with its caption.
C11_Single(t) ==
    LET item == tasks[t].to_send[1]
    IN /\ tasks[t].call = (IF item.type = "photo" THEN "send_photo" ELSE "send_video")
       /\ item.type \in {"photo", "video"}
       /\ tasks[t].media = <<[type |-> item.type, media |-> item.file_id,
                              caption |-> item.caption]>>

\* The group-send of 2 to 10 items: every item in its place, the caption of
\* the first one only.
C11_Group(t) ==
    LET batch == tasks[t].to_send
        media == tasks[t].media
    IN /\ tasks[t].call = "send_media_group"
       /\ Len(media) = Len(batch)
       /\ \A i \in 1..Len(batch) :
              /\ media[i].type = batch[i].type
              /\ media[i].media = batch[i].file_id
              /\ media[i].caption = (IF i = 1 THEN batch[1].caption ELSE "None")

C11_OneCallOfItsKind ==
    \A t \in TaskIds :
        tasks[t].pc = "sending"
            => /\ Len(tasks[t].to_send) = 1 => C11_Single(t)
               /\ Len(tasks[t].to_send) \in 2..BATCH_LIMIT => C11_Group(t)
               /\ Len(tasks[t].to_send) \in 1..BATCH_LIMIT

\* A dispatcher that takes the lock over a non-empty queue issues its send
\* call in that step, and the call stays the same while it is suspended in it.
C11_OneCallPerDispatch ==
    \A t \in TaskIds :
        /\ (last'.op = "lock_acquired" /\ last'.task = t /\ Queue(last'.user) # <<>>)
               => SendIssued(t)
        /\ (tasks[t].pc = "sending" /\ tasks'[t].pc = "sending")
               => /\ tasks'[t].call = tasks[t].call
                  /\ tasks'[t].media = tasks[t].media

\* C11: a dispatch of exactly 1 item issues one single-send of the item's kind
\* with the item's caption; a dispatch of 2 to 10 items issues one group-send
\* in which only the first item carries its caption; a non-empty dispatch
\* issues exactly one send call.
C11_SingleOrGroupSend == []C11_OneCallOfItsKind /\ [][C11_OneCallPerDispatch]_vars

C11_Witness ==
    \E t \in TaskIds :
        /\ tasks[t].pc = "sending"
        /\ tasks[t].call = "send_media_group"
        /\ Len(tasks[t].to_send) \in 2..(BATCH_LIMIT - 1)
        /\ tasks[t].to_send[1].type = "video"
        /\ tasks[t].media[1].caption = "cap"
        /\ tasks[t].to_send[2].caption = "cap"
        /\ tasks[t].media[2].caption = "None"

\* This step runs the dispatcher (or the timer's callback) of u over an empty
\* queue: the timer fires, a waiting invocation takes the lock, or /send_album
\* finds the lock free.
EmptyDispatch(u) ==
    /\ Queue(u) = <<>>
    /\ last'.user = u
    /\ \/ last'.op = "timer_fire"
       \/ last'.op = "lock_acquired"
       \/ last'.op = "send_album" /\ ~locked[u] /\ waiters[u] = <<>>

\* C12: a dispatcher invoked over an empty queue issues no send call, ends
\* normally, creates no registry entry, arms no timer and leaves the lock
\* released.
C12_EmptyDispatchNoOp ==
    [][\A u \in Users :
          EmptyDispatch(u)
              => /\ attempted' = attempted
                 /\ Holders(u)' = {}
                 /\ \A t \in TaskIds : ~SendIssued(t)
                 /\ pending' = pending
                 /\ ArmedTimers(u)' = {}
                 /\ ~locked'[u]
                 /\ last'.op # "send_album" => tasks'[last'.task].pc \in {"free", "done"}
                 /\ last'.op = "send_album" =>
                        \A t \in TaskIds : tasks'[t].kind = "handler" => tasks[t] = tasks'[t]]_vars

C12_Witness ==
    /\ last.op = "lock_acquired"
    /\ last.total = 0
    /\ ~locked[last.user]
    /\ last.user \notin DOMAIN pending
    /\ tasks[last.task].pc = "free"

\* C13: a timer task that has begun dispatching is not interrupted by a later
\* cancellation of the timer: once it is suspended in its send call (or in the
\* error notification) it leaves only by the state handling after the send,
\* which takes its batch out of the queue.
C13_FiredTimerCompletes ==
    [][\A t \in TaskIds :
          (/\ tasks[t].kind = "timer"
           /\ tasks[t].pc \in {"sending", "notifying"}
           /\ tasks'[t].pc \notin {"sending", "notifying"})
              => /\ last'.op \in {"send_ok", "notify_done"}
                 /\ last'.task = t
                 /\ Ids(tasks[t].to_send) \cap Ids(Queue(tasks[t].user)') = {}]_vars

\* At most one timer of a user is counting down, and it is the registered one.
C14_OneArmed ==
    \A u \in Users :
        /\ Cardinality(ArmedTimers(u)) <= 1
        /\ \A t \in ArmedTimers(u) : u \in DOMAIN timers /\ timers[u] = t

\* A step that arms a timer leaves it the only armed one, and a timer task
\* calls the dispatcher only when its own delay elapses while it is still
\* the registered timer: a timer cancelled during its delay never does.
C14_ArmAndFire ==
    \A t \in TaskIds : \A u \in Users :
        /\ (t \in ArmedTimers(u)' /\ last'.op # "timer_fire"
               /\ (tasks[t].pc # "sleeping" \/ last'.op = "collect_media"))
              => ArmedTimers(u)' = {t}
        /\ (tasks[t].kind = "timer" /\ tasks[t].user = u /\ tasks[t].pc = "sleeping"
               /\ tasks'[t].kind = "timer" /\ tasks'[t].pc \in {"waiting", "sending"})
              => /\ last'.op = "timer_fire"
                 /\ last'.task = t
                 /\ timers[u] = t
        /\ (tasks[t].kind = "timer" /\ tasks[t].user = u /\ tasks[t].pc = "sleeping"
               /\ (u \notin DOMAIN timers' \/ timers'[u] # t))
              => tasks'[t].kind # "timer"

\* C14: each user has at most one armed timer at every instant: arming cancels
\* the previous timer first, and a timer cancelled before its delay elapsed
\* never invokes the dispatcher.
C14_AtMostOneArmedTimer == []C14_OneArmed /\ [][C14_ArmAndFire]_vars

C14_Witness ==
    /\ last.op = "collect_media"
    /\ last.total >= 2
    /\ last.total < threshold
    /\ Cardinality(ArmedTimers(last.user)) = 1
    /\ \E t \in TaskIds : tasks[t].kind = "timer" /\ tasks[t].cancelled

\* The lock of a user is held only while one of the user's dispatcher
\* invocations is executing between its acquisition and its release.
C15_HeldOnlyWhileDispatching ==
    \A u \in Users : locked[u] => Holders(u) # {}

\* This step is an exit of the dispatcher of u: the early return over an
\* empty queue, the end after a successful or a failed send (with the
\* notification delivered or not), or the CancelledError of its task.
DispatcherExit(u) ==
    /\ last'.user = u
    /\ \/ last'.op \in {"send_ok", "notify_done", "cancelled"}
       \/ last'.op = "lock_acquired" /\ Queue(u) = <<>>
       \/ last'.op = "send_album" /\ Queue(u) = <<>> /\ ~locked[u] /\ waiters[u] = <<>>

C15_ExitReleases ==
    \A u \in Users :
        DispatcherExit(u)
            => /\ ~locked'[u]
               /\ Holders(u)' = {}
               /\ waiters'[u] # <<>> => tasks'[Head(waiters'[u])].pc = "woken"

\* C15: the lock is released on every exit path of the dispatcher, so it is
\* free whenever no invocation is executing, and no invocation waits for it
\* forever: the queue of waiters always empties again.
C15_LockAlwaysReleased ==
    /\ []C15_HeldOnlyWhileDispatching
    /\ [][C15_ExitReleases]_vars
    /\ \A u \in Users : []<>(waiters[u] = <<>>)

C15_Witness ==
    /\ last.op = "cancelled"
    /\ ~locked[last.user]
    /\ waiters[last.user] # <<>>
    /\ tasks[Head(waiters[last.user])].pc = "woken"

\* C16: the registry and the timers agree: no registry entry holds an empty
\* list, and a user with an armed timer has an entry with at least one item.
C16_RegistryAndTimersAgree ==
    \A u \in Users :
        /\ u \in DOMAIN pending => Len(pending[u]) >= 1
        /\ ArmedTimers(u) # {} => (u \in DOMAIN pending /\ Len(pending[u]) >= 1)

C16_Witness ==
    /\ last.op = "send_ok"
    /\ last.user \notin DOMAIN pending
    /\ ArmedTimers(last.user) = {}
    /\ commands.cancel = 0
    /\ Cardinality(attempted) < nextId - 1

\* C17: the new-media handler sends the batching acknowledgment exactly when
\* the enqueue results in a count of 1 that is below the threshold, never for
\* a count of 2 or more; an acknowledged enqueue is the one that created the
\* user's entry, so an entry sees at most one acknowledgment while it exists.
C17_AckOnFirstItemOnly ==
    [][\A u \in Users :
          (last'.op = "collect_media" /\ last'.user = u /\ nextId' = nextId + 1)
              => /\ last'.total = Len(Queue(u)) + 1
                 /\ last'.ack <=> (last'.total = 1 /\ last'.total < threshold)
                 /\ last'.total >= 2 => ~last'.ack
                 /\ last'.ack => (u \notin DOMAIN pending /\ u \in DOMAIN pending')]_vars

C17_Witness ==
    /\ last.op = "collect_media"
    /\ last.total = 1
    /\ ~last.ack
    /\ threshold = 1
    /\ \E u \in Users : u # last.user /\ Len(Queue(u)) >= 2

\* What the program holds for user u: the registry entry, the registered
\* timer, the lock with its waiters, and the coroutines running for u.
StateOf(u) ==
    [entry |-> u \in DOMAIN pending,
     items |-> Queue(u),
     timer |-> IF u \in DOMAIN timers THEN {timers[u]} ELSE {},
     locked |-> locked[u],
     waiters |-> waiters[u],
     coroutines |-> {<<t, tasks[t]>> : t \in {x \in TaskIds : tasks[x].user = u}}]

\* C18: a step taken for one user leaves every other user's pending items,
\* timer, lock and coroutines unchanged, and a dispatcher invoked for a user
\* whose own lock is free starts its send at once, whatever dispatch is in
\* flight for another user.
C18_UsersIndependent ==
    [][\A b \in Users :
          /\ last'.user # b => StateOf(b)' = StateOf(b)
          /\ \A t \in TaskIds :
                 (DispatcherInvoked(t) /\ tasks'[t].user = b
                      /\ ~locked[b] /\ waiters[b] = <<>>)
                     => tasks'[t].pc = "sending"]_vars

C18_Witness ==
    \E t, g \in TaskIds :
        /\ tasks[t].user # tasks[g].user
        /\ tasks[t].pc \in {"sending", "notifying"}
        /\ tasks[g].pc = "sending"
        /\ last.user = tasks[g].user
        /\ last.op \in {"collect_media", "send_album", "timer_fire"}

\* The dispatcher invocations of u that are executing or waiting on the lock
\* and will run to their end (a task that was cancelled inside its send only
\* has its CancelledError left to receive).
Dispatching(u) ==
    {t \in TaskIds : /\ tasks[t].user = u
                     /\ tasks[t].pc \in {"waiting", "woken", "sending", "notifying"}
                     /\ ~tasks[t].cancelled}

\* C19: no pending item is stranded: a user with at least one pending item has
\* an armed timer or a dispatcher invocation that is executing or waiting on
\* the user's lock (handlers arm or dispatch within their own step).
C19_NoItemStranded ==
    \A u \in Users :
        Queue(u) # <<>> => (ArmedTimers(u) # {} \/ Dispatching(u) # {})

C19_Witness ==
    /\ last.op = "cancelled"
    /\ Queue(last.user) # <<>>
    /\ ArmedTimers(last.user) = {}
    /\ \E t \in TaskIds : tasks[t].kind = "handler" /\ tasks[t].pc = "woken"

\* Nothing is left for any user: no registry entry (so no pending item), no
\* armed timer, no lock held.
Quiescent ==
    \A u \in Users :
        /\ u \notin DOMAIN pending
        /\ Queue(u) = <<>>
        /\ ArmedTimers(u) = {}
        /\ ~locked[u]

\* C20: the inbound events of a behaviour are finitely many; when the timers
\* fire and the send calls return or fail, the system eventually reaches and
\* stays in a state with every queue empty, no registry entry, no armed timer
\* and no lock held.
C20_Quiescence == <>[]Quiescent

C20_Witness ==
    /\ Quiescent
    /\ nextId > BATCH_LIMIT + 1
    /\ last.op = "send_ok"
    /\ \A t \in TaskIds : tasks[t].pc = "free"

====
